---- MODULE Spec2Model ----
(***************************************************************************)
(* Model of sqlalchemy_command_helper/command_helper.py: the helpers save, *)
(* update_by_id, update_by_params, delete_by_id and delete_by_params.      *)
(*                                                                         *)
(* Python values are <<tag, n>> pairs so that values of different Python   *)
(* types stay comparable: None, booleans, strings, integers and the        *)
(* datetimes returned by datetime.utcnow().                                *)
(***************************************************************************)
EXTENDS Integers, Sequences, FiniteSets

\* Bounds of the model: the helper calls of one run, and the clock readings.
MaxCalls == 2
MaxTime == 2

None == <<"none", 0>>
True == <<"bool", 1>>
False == <<"bool", 0>>
StrA == <<"str", 1>>
StrB == <<"str", 2>>
IntV(n) == <<"int", n>>
\* The datetime read by datetime.utcnow() at clock reading t.
Time(t) == <<"time", t>>
\* A datetime a caller may put in a payload; no clock reading equals it.
CallerTime == <<"time", 0>>

\* Attributes of the model type, in a fixed order.
AttrOrder == <<"id", "name", "removed", "removed_at">>
Attrs == {AttrOrder[i] : i \in 1..Len(AttrOrder)}

Range(s) == {s[i] : i \in 1..Len(s)}

\* The handle of "no object", the result of find_func (None / an empty result): falsy.
NoObj == 0

\* A dict with no keys.
EmptyMap == [k \in {} |-> None]

\* A Python argument that is either None (given = FALSE) or a dict.
NoData == [given |-> FALSE, map |-> EmptyMap]
Dict(m) == [given |-> TRUE, map |-> m]

\* Python truthiness of a data argument: None and {} are falsy.
Truthy(data) == data.given /\ DOMAIN data.map # {}

\* model_cls(): a new instance, every attribute at the type default.
model_cls == [a \in Attrs |-> None]

\* SetFields with the whitelist test dropped: every key of data is set.
SetFields_AnyKey(obj, fields, data) ==
    [a \in DOMAIN obj \cup DOMAIN data |->
        IF a \in DOMAIN data THEN data[a] ELSE obj[a]]

\* for field in fields: if field in data: setattr(obj, field, data[field])
RECURSIVE SetFields(_, _, _)
SetFields(obj, fields, data) ==
    IF fields = << >> THEN obj
    ELSE LET field == Head(fields)
             o2 == IF field \in DOMAIN data
                   THEN [a \in DOMAIN obj \cup {field} |->
                            IF a = field THEN data[field] ELSE obj[a]]
                   ELSE obj
         IN SetFields(o2, Tail(fields), data)

\* The setattr calls of the loop, in order, on object h.
RECURSIVE SetEvents(_, _, _)
SetEvents(h, fields, data) ==
    IF fields = << >> THEN << >>
    ELSE (IF Head(fields) \in DOMAIN data THEN << <<"setattr", h>> >> ELSE << >>)
         \o SetEvents(h, Tail(fields), data)

\* One entry {field: {op: value}} of a filter spec.
Cond(f, o, v) == [field |-> f, op |-> o, value |-> v]

Matches(obj, c) ==
    IF c.op = "$eq" THEN obj[c.field] = c.value ELSE obj[c.field] # c.value

\* The caller-supplied find_func(session_obj, model_cls, params): the first
\* object that satisfies every entry of params, or NoObj.
find_func(st, params) ==
    LET hits == {h \in 1..Len(st) :
                    \A i \in 1..Len(params) : Matches(st[h], params[i])}
    IN IF hits = {} THEN NoObj
       ELSE CHOOSE h \in hits : \A g \in hits : h <= g

\* The outcome of one helper call.
Result(st, sess, out, ret, ev, fargs, applied, caller) ==
    [store |-> st, session |-> sess, outcome |-> out, ret |-> ret,
     events |-> ev, findArgs |-> fargs, applied |-> applied,
     callerData |-> caller]

\* save whose loop starts at the second name of fields.
save_SkipFirst(st, sess, fields, data) ==
    LET h == Len(st) + 1
        rest == IF fields = << >> THEN << >> ELSE Tail(fields)
        obj == SetFields(model_cls, rest, data.map)
    IN Result(Append(st, obj), sess \cup {h}, "ok", h,
              << <<"new", h>> >> \o SetEvents(h, rest, data.map)
                  \o << <<"add", h>> >>,
              << >>, data.map, data)

save(st, sess, fields, data) ==
    LET h == Len(st) + 1
        obj == SetFields(model_cls, fields, data.map)
    IN Result(Append(st, obj), sess \cup {h}, "ok", h,
              << <<"new", h>> >> \o SetEvents(h, fields, data.map)
                  \o << <<"add", h>> >>,
              << >>, data.map, data)

\* update_by_params without the "if not found_obj: raise": the empty result
\* is handed to session_obj.add and returned.
update_by_params_NoRaise(st, sess, fields, params, data, caller) ==
    LET found_obj == find_func(st, params)
    IN Result(IF found_obj = NoObj THEN st
              ELSE [st EXCEPT ![found_obj] = SetFields(@, fields, data)],
              sess \cup {found_obj}, "ok", found_obj,
              << <<"find", found_obj>> >>
                  \o SetEvents(found_obj, fields, data)
                  \o << <<"add", found_obj>> >>,
              <<params>>, data, caller)

\* update_by_params that registers the record before it sets the fields.
update_by_params_AddFirst(st, sess, fields, params, data, caller) ==
    LET found_obj == find_func(st, params)
    IN IF found_obj = NoObj
       THEN Result(st, sess, "NoResultFound", NoObj,
                   << <<"find", NoObj>> >>, <<params>>, data, caller)
       ELSE Result([st EXCEPT ![found_obj] = SetFields(@, fields, data)],
                   sess \cup {found_obj}, "ok", found_obj,
                   << <<"find", found_obj>>, <<"add", found_obj>> >>
                       \o SetEvents(found_obj, fields, data),
                   <<params>>, data, caller)

update_by_params(st, sess, fields, params, data, caller) ==
    LET found_obj == find_func(st, params)
    IN IF found_obj = NoObj
       THEN Result(st, sess, "NoResultFound", NoObj,
                   << <<"find", NoObj>> >>, <<params>>, data, caller)
       ELSE Result([st EXCEPT ![found_obj] = SetFields(@, fields, data)],
                   sess \cup {found_obj}, "ok", found_obj,
                   << <<"find", found_obj>> >>
                       \o SetEvents(found_obj, fields, data)
                       \o << <<"add", found_obj>> >>,
                   <<params>>, data, caller)

\* update_by_id that builds the filter spec with the wrong operator.
update_by_id_NotEqual(st, sess, fields, _id, data, caller) ==
    update_by_params(st, sess, fields, <<Cond("id", "$ne", _id)>>, data, caller)

update_by_id(st, sess, fields, _id, data, caller) ==
    update_by_params(st, sess, fields, <<Cond("id", "$eq", _id)>>, data, caller)

\* dict.update the wrong way round: the keys m already has keep their value.
DictUpdate_KeepOld(m, other) ==
    [k \in DOMAIN m \cup DOMAIN other |->
        IF k \in DOMAIN m THEN m[k] ELSE other[k]]

\* m.update(other): the keys of other are added to m, replacing equal keys.
DictUpdate(m, other) ==
    [k \in DOMAIN m \cup DOMAIN other |->
        IF k \in DOMAIN other THEN other[k] ELSE m[k]]

\* delete_by_params whose standalone payload lacks the timestamp.
delete_by_params_NoStamp(st, sess, fields, params, data, now) ==
    IF ~Truthy(data)
    THEN update_by_params(st, sess, fields, params, [removed |-> True], data)
    ELSE LET updated == DictUpdate(data.map,
                                   [removed |-> True, removed_at |-> now])
         IN update_by_params(st, sess, fields, params, updated, Dict(updated))

\* delete_by_params that sets the removal fields whatever the whitelist.
delete_by_params_OwnFields(st, sess, fields, params, data, now) ==
    LET own == fields \o <<"removed", "removed_at">>
    IN IF ~Truthy(data)
       THEN update_by_params(st, sess, own, params,
                             [removed |-> True, removed_at |-> now], data)
       ELSE LET updated == DictUpdate(data.map,
                                      [removed |-> True, removed_at |-> now])
            IN update_by_params(st, sess, own, params, updated, Dict(updated))

\* delete_by_params that hands a given extra_data on without the merge.
delete_by_params_NoMerge(st, sess, fields, params, data, now) ==
    IF ~Truthy(data)
    THEN update_by_params(st, sess, fields, params,
                          [removed |-> True, removed_at |-> now], data)
    ELSE update_by_params(st, sess, fields, params, data.map, data)

\* delete_by_params that merges into a copy of extra_data.
delete_by_params_Copy(st, sess, fields, params, data, now) ==
    IF ~Truthy(data)
    THEN update_by_params(st, sess, fields, params,
                          [removed |-> True, removed_at |-> now], data)
    ELSE LET updated == DictUpdate(data.map,
                                   [removed |-> True, removed_at |-> now])
         IN update_by_params(st, sess, fields, params, updated, data)

\* now is the value datetime.utcnow() returns during the call.  In the else
\* branch data.update changes the caller's own dict, which is also the
\* payload handed on.
delete_by_params(st, sess, fields, params, data, now) ==
    IF ~Truthy(data)
    THEN update_by_params(st, sess, fields, params,
                          [removed |-> True, removed_at |-> now], data)
    ELSE LET updated == DictUpdate(data.map,
                                   [removed |-> True, removed_at |-> now])
         IN update_by_params(st, sess, fields, params, updated, Dict(updated))

delete_by_id(st, sess, fields, _id, data, now) ==
    delete_by_params(st, sess, fields, <<Cond("id", "$eq", _id)>>, data, now)

----------------------------------------------------------------------------
\* Inputs.

\* Names a caller may list in a whitelist or a payload.
Settable == Attrs \ {"id"}

SeqOf(S) == SelectSeq(AttrOrder, LAMBDA a : a \in S)
\* Whitelists: every set of settable names in attribute order, and one list
\* out of order with a repeated name.
Whitelists ==
    {SeqOf(S) : S \in SUBSET Settable}
        \cup {<<"removed_at", "removed", "name", "removed">>}

AllVals == {None, True, False, StrA, StrB, CallerTime}
PayloadVals(k) ==
    IF k = "name" THEN {StrB}
    ELSE IF k = "removed" THEN {True, False}
    ELSE IF k = "removed_at" THEN {CallerTime}
    ELSE {}
Payloads ==
    UNION {{m \in [S -> AllVals] : \A k \in S : m[k] \in PayloadVals(k)} :
              S \in SUBSET Settable}

Ids == {IntV(7), IntV(8)}
Filters == {<<Cond("name", "$eq", StrB)>>,
            <<Cond("id", "$eq", IntV(7)), Cond("removed", "$ne", True)>>}
Times == {Time(t) : t \in 1..MaxTime}

\* The row already in the database when the helpers are first called.
Row == [a \in Attrs |->
           IF a = "id" THEN IntV(7)
           ELSE IF a = "name" THEN StrA
           ELSE IF a = "removed" THEN False
           ELSE None]

----------------------------------------------------------------------------
\* store: the objects of the model type, by handle (position);
\* session: the handles registered with session_obj.add;
\* lastCall: the helper call that has just ended, with its arguments, the
\*   state it started from and what it did; calls: the calls made so far.
VARIABLES store, session, lastCall, calls

vars == <<store, session, lastCall, calls>>

Call(op, fields, data, params, id, now, pre, preSession, res) ==
    [op |-> op, fields |-> fields, data |-> data, params |-> params,
     id |-> id, now |-> now, pre |-> pre, preSession |-> preSession,
     outcome |-> res.outcome, ret |-> res.ret, events |-> res.events,
     findArgs |-> res.findArgs, applied |-> res.applied,
     callerData |-> res.callerData]

Idle ==
    Call("none", << >>, NoData, << >>, None, None, << >>, {},
         Result(<< >>, {}, "ok", NoObj, << >>, << >>, EmptyMap, NoData))

Init ==
    /\ store = <<Row>>
    /\ session = {}
    /\ lastCall = Idle
    /\ calls = 0

\* One helper call, from the caller's entry to the helper's return or raise.
\* The caller is between two calls and has calls left to make.
Ready == lastCall = Idle /\ calls < MaxCalls

Finish(op, fields, data, params, id, now, res) ==
    /\ calls' = calls + 1
    /\ \E r \in {res} :
          /\ store' = r.store
          /\ session' = r.session
          /\ lastCall' = Call(op, fields, data, params, id, now,
                              store, session, r)

Save ==
    /\ Ready
    /\ \E fields \in Whitelists, m \in Payloads :
          Finish("save", fields, Dict(m), << >>, None, None,
                 save(store, session, fields, Dict(m)))

UpdateById ==
    /\ Ready
    /\ \E fields \in Whitelists, _id \in Ids, m \in Payloads :
          Finish("update_by_id", fields, Dict(m), << >>, _id, None,
                 update_by_id(store, session, fields, _id, m, Dict(m)))

UpdateByParams ==
    /\ Ready
    /\ \E fields \in Whitelists, params \in Filters, m \in Payloads :
          Finish("update_by_params", fields, Dict(m), params, None, None,
                 update_by_params(store, session, fields, params, m, Dict(m)))

DeleteById ==
    /\ Ready
    /\ \E fields \in Whitelists, _id \in Ids, now \in Times,
          data \in {NoData} \cup {Dict(m) : m \in Payloads} :
          Finish("delete_by_id", fields, data, << >>, _id, now,
                 delete_by_id(store, session, fields, _id, data, now))

DeleteByParams ==
    /\ Ready
    /\ \E fields \in Whitelists, params \in Filters, now \in Times,
          data \in {NoData} \cup {Dict(m) : m \in Payloads} :
          Finish("delete_by_params", fields, data, params, None, now,
                 delete_by_params(store, session, fields, params, data, now))

\* The caller takes the result (or the exception) and goes on: the helpers
\* are synchronous, so the next call starts only after this one has ended.
Return ==
    /\ lastCall # Idle
    /\ lastCall' = Idle
    /\ UNCHANGED <<store, session, calls>>

Next ==
    \/ Save
    \/ UpdateById
    \/ UpdateByParams
    \/ DeleteById
    \/ DeleteByParams
    \/ Return

Spec == Init /\ [][Next]_vars

----------------------------------------------------------------------------
\* Shorthands for the call that has just ended.

IsSave == lastCall.op = "save"
IsUpdate == lastCall.op \in {"update_by_id", "update_by_params"}
IsDelete == lastCall.op \in {"delete_by_id", "delete_by_params"}
ById == lastCall.op \in {"update_by_id", "delete_by_id"}
Ok == lastCall.outcome = "ok"
\* The whitelist W and the payload D (empty when no dict was passed).
W == Range(lastCall.fields)
D == lastCall.data.map
\* The literal filter spec [{"id": {"$eq": id}}].
IdEq(i) == << [field |-> "id", op |-> "$eq", value |-> i] >>
\* The filter spec the call is about, and what find has to say about it in
\* the state the call started from.
CallFilter == IF ById THEN IdEq(lastCall.id) ELSE lastCall.params
Located == find_func(lastCall.pre, CallFilter)
RemovalKeys == {"removed", "removed_at"}
\* What a call leaves behind, as the caller can observe it.
Observed ==
    Result(store, session, lastCall.outcome, lastCall.ret, lastCall.events,
           lastCall.findArgs, lastCall.applied, lastCall.callerData)
Count(ev, kind) == Cardinality({i \in 1..Len(ev) : ev[i][1] = kind})

\* C1: save returns a newly instantiated record on which every name of W
\* that is a key of D has the value D[name], and every name of W that is not
\* a key of D still has the type default.
C1_SaveSetsWhitelisted ==
    IsSave =>
        /\ Ok
        /\ lastCall.ret = Len(lastCall.pre) + 1
        /\ Len(store) = Len(lastCall.pre) + 1
        /\ \A h \in 1..Len(lastCall.pre) : store[h] = lastCall.pre[h]
        /\ \A f \in W :
              IF f \in DOMAIN D
              THEN store[lastCall.ret][f] = D[f]
              ELSE store[lastCall.ret][f] = None

C1_Witness ==
    /\ IsSave
    /\ \E f \in W : f \in DOMAIN D /\ D[f] # None
    /\ \E f \in W : f \notin DOMAIN D

\* C2: a successful update leaves the located record equal to its state
\* before the call overridden by D restricted to W; save never sets an
\* attribute whose name is not in W.
C2_UpdateOverridesOnlyWhitelisted ==
    /\ (IsUpdate /\ Ok) =>
          store[lastCall.ret] =
             [a \in Attrs |->
                 IF a \in W /\ a \in DOMAIN D
                 THEN D[a] ELSE lastCall.pre[lastCall.ret][a]]
    /\ IsSave =>
          \A a \in Attrs \ W : store[lastCall.ret][a] = None

C2_Witness ==
    /\ IsUpdate /\ Ok
    /\ \E a \in DOMAIN D \ W : D[a] # lastCall.pre[lastCall.ret][a]
    /\ \E a \in DOMAIN D \cap W : D[a] # lastCall.pre[lastCall.ret][a]
    /\ \E a \in W \ DOMAIN D : lastCall.pre[lastCall.ret][a] # None

\* C3: update_by_id(id, D) leaves exactly what update_by_params with the
\* filter spec [{"id": {"$eq": id}}] and the same arguments leaves, and
\* delete_by_id(id, extra) exactly what delete_by_params with that filter
\* spec leaves: the filter handed to find, the outcome, the record, the
\* registrations.
C3_ByIdIsByParams ==
    /\ lastCall.op = "update_by_id" =>
          /\ lastCall.findArgs = << IdEq(lastCall.id) >>
          /\ Observed = update_by_params(lastCall.pre, lastCall.preSession,
                                         lastCall.fields, IdEq(lastCall.id),
                                         D, lastCall.data)
    /\ lastCall.op = "delete_by_id" =>
          /\ lastCall.findArgs = << IdEq(lastCall.id) >>
          /\ Observed = delete_by_params(lastCall.pre, lastCall.preSession,
                                         lastCall.fields, IdEq(lastCall.id),
                                         lastCall.data, lastCall.now)

C3_Witness ==
    /\ lastCall.op = "update_by_id"
    /\ Ok
    /\ store # lastCall.pre
    /\ Len(store) > 1

\* C4: when find returns an empty result, an update or delete ends with
\* NoResultFound, changes no attribute of any record and registers nothing.
C4_NotFoundChangesNothing ==
    ((IsUpdate \/ IsDelete) /\ Located = NoObj) =>
        /\ lastCall.outcome = "NoResultFound"
        /\ lastCall.ret = NoObj
        /\ store = lastCall.pre
        /\ session = lastCall.preSession
        /\ Count(lastCall.events, "add") = 0
        /\ Count(lastCall.events, "setattr") = 0

C4_Witness ==
    /\ IsUpdate
    /\ Located = NoObj
    /\ lastCall.outcome = "NoResultFound"
    /\ W \cap DOMAIN D # {}
    /\ Len(store) > 1

\* C5: a delete with no extra_data on an existing record, with "removed" and
\* "removed_at" in W, applies exactly {"removed": True, "removed_at": T}, T
\* the time read during the call: the record has removed = True,
\* removed_at = T and every other attribute as before.
C5_PlainDeleteMarksRemoved ==
    (IsDelete /\ ~lastCall.data.given /\ Located # NoObj
        /\ RemovalKeys \subseteq W) =>
        /\ Ok
        /\ lastCall.ret = Located
        /\ lastCall.now \in Times
        /\ lastCall.applied = [removed |-> True, removed_at |-> lastCall.now]
        /\ store[Located] =
              [a \in Attrs |->
                  IF a = "removed" THEN True
                  ELSE IF a = "removed_at" THEN lastCall.now
                  ELSE lastCall.pre[Located][a]]

C5_Witness ==
    /\ IsDelete /\ ~lastCall.data.given /\ Ok
    /\ lastCall.fields = <<"name", "removed", "removed_at">>
    /\ lastCall.pre[lastCall.ret] = Row
    /\ store[lastCall.ret].removed = True

\* C6: whatever extra_data a delete is given, the payload applied has
\* "removed" = True and "removed_at" = the call's timestamp, also when
\* extra_data sets them itself; every other key of extra_data keeps the
\* caller's value, and the whitelisted keys of the payload are written to
\* the located record.
C6_RemovalKeysWin ==
    IsDelete =>
        /\ RemovalKeys \subseteq DOMAIN lastCall.applied
        /\ lastCall.applied["removed"] = True
        /\ lastCall.applied["removed_at"] = lastCall.now
        /\ \A k \in DOMAIN D \ RemovalKeys :
              k \in DOMAIN lastCall.applied /\ lastCall.applied[k] = D[k]
        /\ Ok => \A k \in W \cap DOMAIN lastCall.applied :
                    store[lastCall.ret][k] = lastCall.applied[k]

C6_Witness ==
    /\ IsDelete /\ Ok
    /\ DOMAIN D = {"name", "removed", "removed_at"}
    /\ D["removed"] = False
    /\ {"name", "removed", "removed_at"} \subseteq W
    /\ lastCall.pre[lastCall.ret]["name"] # D["name"]
    /\ store[lastCall.ret]["name"] = D["name"]

\* C7: with neither "removed" nor "removed_at" in W, a delete on an existing
\* record returns that record without error and leaves removed, removed_at
\* and every attribute not named in both W and extra_data as they were.
C7_DeleteNeedsWhitelist ==
    (IsDelete /\ Located # NoObj /\ W \cap RemovalKeys = {}) =>
        /\ Ok
        /\ lastCall.ret = Located
        /\ store[Located]["removed"] = lastCall.pre[Located]["removed"]
        /\ store[Located]["removed_at"] = lastCall.pre[Located]["removed_at"]
        /\ \A a \in Attrs :
              ~(a \in W /\ a \in DOMAIN D) =>
                  store[Located][a] = lastCall.pre[Located][a]

C7_Witness ==
    /\ IsDelete /\ Ok
    /\ W = {"name"}
    /\ lastCall.pre[lastCall.ret]["removed"] = False
    /\ store[lastCall.ret]["removed"] = False
    /\ store[lastCall.ret]["name"] # lastCall.pre[lastCall.ret]["name"]

\* C8: a successful call registers with the session exactly once, last, the
\* record it returns; save does so after instantiating and setting the
\* fields, an update or delete after one find (whose result is that record)
\* and the field assignments.
C8_OneRegistrationLast ==
    ((IsSave \/ IsUpdate \/ IsDelete) /\ Ok) =>
        LET ev == lastCall.events
            n == Len(ev)
        IN /\ n >= 2
           /\ ev[n] = <<"add", lastCall.ret>>
           /\ Count(ev, "add") = 1
           /\ session = lastCall.preSession \cup {lastCall.ret}
           /\ \A i \in 2..(n - 1) : ev[i] = <<"setattr", lastCall.ret>>
           /\ Count(ev, "setattr") = Cardinality({i \in 1..Len(lastCall.fields) :
                  lastCall.fields[i] \in DOMAIN lastCall.applied})
           /\ IF IsSave
              THEN ev[1] = <<"new", lastCall.ret>> /\ lastCall.findArgs = << >>
              ELSE /\ ev[1] = <<"find", lastCall.ret>>
                   /\ lastCall.findArgs = <<CallFilter>>
                   /\ lastCall.ret = Located

C8_Witness ==
    /\ IsUpdate /\ Ok
    /\ Count(lastCall.events, "setattr") >= 2
    /\ lastCall.ret \notin lastCall.preSession

\* C9: no delete sets a record's removed attribute to False, and a record
\* whose removed is True gets removed = False only by an update whose
\* whitelist contains "removed" and whose payload has removed = False.
C9_RemovedOneWay ==
    \A h \in 1..Len(lastCall.pre) :
        /\ (IsDelete /\ store[h]["removed"] = False) =>
              lastCall.pre[h]["removed"] = False
        /\ (lastCall.pre[h]["removed"] = True /\ store[h]["removed"] = False) =>
              /\ IsUpdate
              /\ "removed" \in W
              /\ "removed" \in DOMAIN D
              /\ D["removed"] = False

C9_Witness ==
    \E h \in 1..Len(lastCall.pre) :
        /\ lastCall.pre[h]["removed"] = True
        /\ lastCall.pre[h]["removed_at"] \in Times
        /\ store[h]["removed"] = False
        /\ IsUpdate

\* C10 as stated: whenever extra_data is given, an empty dict included, the
\* caller's dict holds "removed" = True and "removed_at" = the call's
\* timestamp after the call.
C10_AsStated ==
    (IsDelete /\ lastCall.data.given) =>
        /\ RemovalKeys \subseteq DOMAIN lastCall.callerData.map
        /\ lastCall.callerData.map["removed"] = True
        /\ lastCall.callerData.map["removed_at"] = lastCall.now

\* C10 amended: when extra_data is a non-empty dict, the removal keys are
\* added into that same dict, which is the payload applied, also when the
\* call ends with NoResultFound; when extra_data is None or an empty dict,
\* a fresh payload is used and the caller's argument is left as it was.
C10_NonEmptyDictIsMutated ==
    IsDelete =>
        IF lastCall.data.given /\ DOMAIN D # {}
        THEN /\ lastCall.callerData.given
             /\ lastCall.callerData.map = lastCall.applied
             /\ DOMAIN lastCall.callerData.map = DOMAIN D \cup RemovalKeys
             /\ lastCall.callerData.map["removed"] = True
             /\ lastCall.callerData.map["removed_at"] = lastCall.now
             /\ \A k \in DOMAIN D \ RemovalKeys :
                   lastCall.callerData.map[k] = D[k]
        ELSE /\ lastCall.callerData = lastCall.data
             /\ lastCall.applied =
                   [removed |-> True, removed_at |-> lastCall.now]

C10_Witness ==
    /\ IsDelete
    /\ lastCall.outcome = "NoResultFound"
    /\ D = [removed |-> False]
    /\ lastCall.callerData.map["removed"] = True

====
